---------------------------- MODULE Spec2Model ----------------------------
(***************************************************************************)
(* Model of the audit-log fetcher of crusoe-splunk-hec:                    *)
(*   src/crusoe_client.py  CrusoeClient (session, get_audit_logs,          *)
(*                         get_audit_logs_paginated)                       *)
(*   src/main.py           LogForwarder.forward_logs                       *)
(*   src/config.py         AppConfig                                       *)
(* The client is written against urllib3 1.x (Retry(method_whitelist=...)) *)
(* and the retry loop below is the one HTTPAdapter runs with that Retry.   *)
(* Sleeps (backoff, the 0.1 s inter-page delay) take time but change no    *)
(* state, so they are not steps of the model.                              *)
(***************************************************************************)
EXTENDS Integers, Sequences, FiniteSets, TLC

VARIABLES
    config,         \* AppConfig: batch_size, timeout, max_retries, api_token
    session,        \* CrusoeClient.session: its default headers
    endpoint,       \* behaviour of the audit-log endpoint (the environment)
    call,           \* who calls get_audit_logs_paginated, and its arguments
    pc,             \* position of the single thread of control
    page_size,      \* get_audit_logs_paginated: parameter page_size
    max_pages,      \* get_audit_logs_paginated: parameter max_pages
    all_logs,       \* get_audit_logs_paginated: local all_logs
    offset,         \* get_audit_logs_paginated: local offset
    page_count,     \* get_audit_logs_paginated: local page_count
    requests,       \* page requests issued by this call, in order
    attempts,       \* HTTP attempts made for the current page request
    retries_left,   \* urllib3 Retry.total of the current page request
    last_response,  \* the endpoint's answer to the latest HTTP attempt
    page_error,     \* exception raised by the latest get_audit_logs call
    result,         \* value returned by get_audit_logs_paginated
    splunk_calls,   \* arguments of every send_events_batch call
    fwd_result,     \* value returned by forward_logs
    forwarder,      \* "none", or "constructed" once LogForwarder(config) exists
    exit_code,      \* status the process exited with, None while it runs
    exit_reason,    \* why the process ended: the error logged, or "interrupt"
    cycles,         \* daemon: forwarding cycles started after the first one
    signer,         \* the signing scripts: inputs, signature and request
    reported,       \* what the command echoed: "none", "success" or "error"
    cancel_requested \* the environment has asked for the fetch to be cancelled

vars == <<config, session, endpoint, call, pc, page_size, max_pages, all_logs,
          offset, page_count, requests, attempts, retries_left, last_response,
          page_error, result, splunk_calls, fwd_result, forwarder, exit_code,
          exit_reason, cycles, signer, reported, cancel_requested>>

\* what the fetch and forward_logs never touch
proc_vars == <<forwarder, exit_code, exit_reason, cycles, signer, reported,
               cancel_requested>>

-----------------------------------------------------------------------------
(* Bounds of the model *)

MaxItems == 5           \* largest collection served besides the documented one
MaxPageSize == 3        \* largest page_size besides the default one
MaxPagesArg == 2        \* largest max_pages argument
MaxRequests == 3        \* an arbitrary endpoint serves at most this many full pages
MaxConfigRetries == 1   \* configured AppConfig.max_retries: 1..this, and the default
MaxCycles == 1          \* daemon: cycles started after the first one
MaxParams == 2          \* signing: query parameters of a request
MaxSecretBytes == 3     \* signing: bytes of the secret key
MaxClock == 1           \* signing: seconds the clock advances

(* Program constants *)

DefaultBatchSize == 100     \* AppConfig.batch_size, page_size default
DefaultTimeout == 30        \* AppConfig.timeout
DefaultMaxRetries == 3      \* AppConfig.max_retries
\* mutants: the retry total and the request timeout taken from AppConfig
RetryTotal_FromConfig == config.max_retries
RequestTimeout_FromConfig == config.timeout

RetryTotal == 3             \* Retry(total=3)
RequestTimeout == 30        \* session.get(url, params=params, timeout=30)

-----------------------------------------------------------------------------
(* Optional values: None, or Some(x) *)

None == [some |-> FALSE, v |-> 0]
Some(x) == [some |-> TRUE, v |-> x]

\* Python truthiness of an Optional[int]: None and 0 are falsy
Truthy(opt) == opt.some /\ opt.v # 0

Min(a, b) == IF a < b THEN a ELSE b

\* datetime.isoformat() of a time given in whole hours since the epoch day
IsoFormat(t) == [date |-> t \div 24, hour |-> t % 24, tz |-> "+00:00"]

-----------------------------------------------------------------------------
(* CrusoeClient._create_session *)

\* session.headers.update({...}): the default headers of every request
SessionHeaders(crusoe) ==
    [Authorization |-> <<"Bearer", crusoe.api_token>>,
     ContentType   |-> "application/json",
     UserAgent     |-> "crusoe-splunk-hec/1.0"]

\* mutants of the forcelist: a status added or left out
StatusForcelist_WithAuth == {401, 403, 429, 500, 502, 503, 504}
StatusForcelist_With404 == {404, 429, 500, 502, 503, 504}
StatusForcelist_No429 == {500, 502, 503, 504}

\* Retry(status_forcelist=[429, 500, 502, 503, 504])
StatusForcelist == {429, 500, 502, 503, 504}

\* Retry(method_whitelist=["HEAD", "GET", "OPTIONS"])
MethodWhitelist == {"HEAD", "GET", "OPTIONS"}

\* Retry.is_retry / Retry.increment(error=...): a response whose status is in
\* the forcelist, or a connection/read error, consumes one retry
IsRetry(method, r) ==
    \/ r.kind = "neterr"
    \/ r.kind = "http" /\ method \in MethodWhitelist /\ r.status \in StatusForcelist

\* Retry.increment: total - 1
Increment(total) == total - 1

\* Retry.is_exhausted: the incremented total is below zero
IsExhausted(total) == total < 0

-----------------------------------------------------------------------------
(* CrusoeClient.get_audit_logs *)

\* mutant: the offset is passed whenever it is not None
Params_OffsetNotNone(start_time, end_time, limit, off) ==
    LET keys == (IF start_time.some THEN {"start_time"} ELSE {})
                \cup (IF end_time.some THEN {"end_time"} ELSE {})
                \cup (IF Truthy(limit) THEN {"limit"} ELSE {})
                \cup (IF off.some THEN {"offset"} ELSE {})
    IN  [k \in keys |->
            CASE k = "start_time" -> IsoFormat(start_time.v)
              [] k = "end_time"   -> IsoFormat(end_time.v)
              [] k = "limit"      -> limit.v
              [] k = "offset"     -> off.v]

\* Build query parameters: a key is present only when its value is truthy
Params(start_time, end_time, limit, off) ==
    LET keys == (IF start_time.some THEN {"start_time"} ELSE {})
                \cup (IF end_time.some THEN {"end_time"} ELSE {})
                \cup (IF Truthy(limit) THEN {"limit"} ELSE {})
                \cup (IF Truthy(off) THEN {"offset"} ELSE {})
    IN  [k \in keys |->
            CASE k = "start_time" -> IsoFormat(start_time.v)
              [] k = "end_time"   -> IsoFormat(end_time.v)
              [] k = "limit"      -> limit.v
              [] k = "offset"     -> off.v]

\* response.raise_for_status(): HTTPError for a 4xx or 5xx status
RaisesForStatus(status) == status >= 400 /\ status < 600

\* mutant: data["items"] in place of data.get("items", [])
GetAuditLogsOutcomes_KeyError(r) ==
    IF RaisesForStatus(r.status)
    THEN {[exc |-> "CrusoeAPIError", logs |-> <<>>]}
    ELSE CASE r.body = "items"     -> {[exc |-> "none", logs |-> r.items]}
           [] r.body = "noitems"   -> {[exc |-> "KeyError", logs |-> <<>>]}
           [] r.body = "notobject" -> {[exc |-> "AttributeError", logs |-> <<>>]}
           [] OTHER                -> {[exc |-> "CrusoeAPIError", logs |-> <<>>],
                                       [exc |-> "ValueError", logs |-> <<>>]}

\* What get_audit_logs does with the response session.get returned: the set of
\* possible outcomes [exc, logs].  exc = "none" is a normal return of logs.
\*   body "items"     a JSON object with an items list
\*   body "noitems"   a JSON object without the items key: data.get("items", [])
\*   body "notobject" a JSON value without .get (an array): AttributeError
\*   body "notjson"   response.json() raises; the exception is a
\*                    RequestException or a plain ValueError, by requests version
GetAuditLogsOutcomes(r) ==
    IF RaisesForStatus(r.status)
    THEN {[exc |-> "CrusoeAPIError", logs |-> <<>>]}
    ELSE CASE r.body = "items"     -> {[exc |-> "none", logs |-> r.items]}
           [] r.body = "noitems"   -> {[exc |-> "none", logs |-> <<>>]}
           [] r.body = "notobject" -> {[exc |-> "AttributeError", logs |-> <<>>]}
           [] OTHER                -> {[exc |-> "CrusoeAPIError", logs |-> <<>>],
                                       [exc |-> "ValueError", logs |-> <<>>]}

\* except requests.exceptions.RequestException: the retries ran out
\* (RetryError / ConnectionError) and the error is wrapped in CrusoeAPIError
RetriesExhaustedError == "CrusoeAPIError"

-----------------------------------------------------------------------------
(* CrusoeClient.get_audit_logs_paginated *)

\* if max_pages and page_count >= max_pages: break
MaxPagesReached(mp, pages) == Truthy(mp) /\ pages >= mp.v

\* mutant: the short-page test off by one
IsShortPage_OffByOne(logs, ps) == Len(logs) < ps - 1
\* mutant: a full page counts as the last one
IsShortPage_OrFull(logs, ps) == Len(logs) <= ps

\* if len(logs) < page_size: break
IsShortPage(logs, ps) == Len(logs) < ps

\* mutant: the offset advanced by one page number, not by the items received
NextOffset_ByOne(off, logs) == off + 1
\* mutant: the offset does not advance
NextOffset_Stale(off, logs) == off
\* mutant: the offset advances by twice the page's length
NextOffset_Double(off, logs) == off + 2 * Len(logs)

\* offset += len(logs)
NextOffset(off, logs) == off + Len(logs)

\* mutant: the page is put in front of the accumulated logs
Extend_Prepend(all, logs) == logs \o all

\* all_logs.extend(logs)
Extend(all, logs) == all \o logs

\* mutant: an empty page does not end the loop
AfterPage_ContinueOnEmpty(logs, ps) ==
    IF logs # <<>> /\ IsShortPage(logs, ps) THEN "last" ELSE "continue"

\* the loop body after get_audit_logs returned logs:
\*   "break"     if not logs: break
\*   "last"      extend, advance, then break on a short page
\*   "continue"  extend, advance, sleep, next iteration
AfterPage(logs, ps) ==
    IF logs = <<>> THEN "break"
    ELSE IF IsShortPage(logs, ps) THEN "last"
    ELSE "continue"

\* mutant: every exception of a page fetch is logged and ends the loop
ExceptClause_Swallow(exc) == "break"

\* except CrusoeAPIError: raise / except Exception: log and break
ExceptClause(exc) == IF exc = "CrusoeAPIError" THEN "raise" ELSE "break"

-----------------------------------------------------------------------------
(* The audit-log endpoint *)

Http(status, body, items) ==
    [kind |-> "http", status |-> status, body |-> body, items |-> items]
NetErr == [kind |-> "neterr", status |-> 0, body |-> "none", items |-> <<>>]
NoResponse == [kind |-> "none", status |-> 0, body |-> "none", items |-> <<>>]

ErrorStatuses == {400, 401, 403, 404, 429, 500, 501, 502, 503, 504, 505}

\* offset and limit as the server reads them off the query string
ReqOffset(req) == IF "offset" \in DOMAIN req.params THEN req.params["offset"] ELSE 0
ReqLimit(req, n) == IF "limit" \in DOMAIN req.params THEN req.params["limit"] ELSE n

\* items numbered from+1 .. from+k
Items(from, k) == [i \in 1..k |-> from + i]

\* the slice [offset, offset+limit) of a collection of n items
Slice(req, n) ==
    LET o == ReqOffset(req)
        l == ReqLimit(req, n)
    IN  IF o >= n THEN <<>> ELSE Items(o, Min(l, n - o))

\* the answers the endpoint can give to the request req
EndpointResponses(req) ==
    CASE endpoint.kind = "slice" -> {Http(200, "items", Slice(req, endpoint.n))}
      [] endpoint.kind = "fixed" -> {Http(endpoint.status, "error", <<>>)}
      [] endpoint.kind = "down"  -> {NetErr}
      [] OTHER ->
            {Http(s, "error", <<>>) : s \in ErrorStatuses}
            \cup {NetErr}
            \cup {Http(200, b, <<>>) : b \in {"noitems", "notobject", "notjson"}}
            \cup {Http(200, "items", Items(ReqOffset(req), k)) :
                    k \in 0..(IF Len(requests) < MaxRequests
                              THEN page_size + 1 ELSE page_size - 1)}

-----------------------------------------------------------------------------
(* SplunkHECClient.send_events_batch: its outcomes, either every event sent  *)
(* or SplunkHECError                                                         *)

SendEventsBatchOutcomes(events, batch_size) ==
    {[exc |-> "none", sent |-> Len(events)],
     [exc |-> "SplunkHECError", sent |-> 0]}

-----------------------------------------------------------------------------
(* The request-signing scripts: canonical query, secret key, signature *)

\* Text is a sequence of character codes; these are the codes of = and &
EqualsSign == 61
Ampersand == 38

\* str(n) of a non-negative integer
RECURSIVE Digits(_)
Digits(n) == IF n < 10 THEN <<48 + n>> ELSE Digits(n \div 10) \o <<48 + (n % 10)>>

\* f"{v}" of a parameter value: an int or a str
Format(v) == IF v.type = "int" THEN Digits(v.n) ELSE v.s

\* a < b for two strings, as Python compares them
RECURSIVE LexLess(_, _)
LexLess(a, b) ==
    IF b = <<>> THEN FALSE
    ELSE IF a = <<>> THEN TRUE
    ELSE IF a[1] # b[1] THEN a[1] < b[1]
    ELSE LexLess(Tail(a), Tail(b))

\* sorted(params.items()): the items in ascending order of their keys
RECURSIVE Insert(_, _)
Insert(item, sorted) ==
    IF sorted = <<>> THEN <<item>>
    ELSE IF LexLess(item.key, sorted[1].key) THEN <<item>> \o sorted
    ELSE <<sorted[1]>> \o Insert(item, Tail(sorted))

RECURSIVE Sorted(_)
Sorted(items) ==
    IF items = <<>> THEN <<>>
    ELSE Insert(items[Len(items)], Sorted(SubSeq(items, 1, Len(items) - 1)))

\* "&".join([f"{k}={v}" for k, v in items])
RECURSIVE Join(_)
Join(items) ==
    IF items = <<>> THEN <<>>
    ELSE IF Len(items) = 1 THEN items[1].key \o <<EqualsSign>> \o Format(items[1].value)
    ELSE items[1].key \o <<EqualsSign>> \o Format(items[1].value)
            \o <<Ampersand>> \o Join(Tail(items))

\* mutant: the parameters joined in insertion order
Canonicalize_Unsorted(items) == Join(items)

\* the canonical query string of a parameter dict (its items in insertion order)
Canonicalize(items) == Join(Sorted(items))

\* A base64 string is a sequence of alphabet indices 0..63; this is =
PadChar == 64

\* mutant: len % 4 padding characters
PadLength_Positive(n) == n % 4

\* -len(secret_key) % 4
PadLength(n) == (-n) % 4

\* secret_key + '=' * (-len(secret_key) % 4)
RestorePadding(s) == s \o [i \in 1..PadLength(Len(s)) |-> PadChar]

\* s.rstrip("=")
RECURSIVE RStrip(_)
RStrip(s) ==
    IF s # <<>> /\ s[Len(s)] = PadChar THEN RStrip(SubSeq(s, 1, Len(s) - 1)) ELSE s

\* base64.urlsafe_b64encode
RECURSIVE B64Encode(_)
B64Encode(b) ==
    IF b = <<>> THEN <<>>
    ELSE IF Len(b) = 1
    THEN <<b[1] \div 4, (b[1] % 4) * 16, PadChar, PadChar>>
    ELSE IF Len(b) = 2
    THEN <<b[1] \div 4, (b[1] % 4) * 16 + (b[2] \div 16), (b[2] % 16) * 4, PadChar>>
    ELSE <<b[1] \div 4, (b[1] % 4) * 16 + (b[2] \div 16),
           (b[2] % 16) * 4 + (b[3] \div 64), b[3] % 64>>
         \o B64Encode(SubSeq(b, 4, Len(b)))

\* the bytes of the data characters of a base64 string
RECURSIVE DecodeData(_)
DecodeData(d) ==
    IF Len(d) < 2 THEN <<>>
    ELSE IF Len(d) = 2 THEN <<d[1] * 4 + (d[2] \div 16)>>
    ELSE IF Len(d) = 3
    THEN <<d[1] * 4 + (d[2] \div 16), (d[2] % 16) * 16 + (d[3] \div 4)>>
    ELSE <<d[1] * 4 + (d[2] \div 16), (d[2] % 16) * 16 + (d[3] \div 4),
           (d[3] % 4) * 64 + d[4]>>
         \o DecodeData(SubSeq(d, 5, Len(d)))

\* base64.urlsafe_b64decode: binascii.Error unless the last group is padded
B64Decode(s) ==
    LET data == RStrip(s)
        pads == Len(s) - Len(data)
        r    == Len(data) % 4
    IN  [ok    |-> r = 0 \/ (r = 2 /\ pads >= 2) \/ (r = 3 /\ pads >= 1),
         bytes |-> DecodeData(data)]

\* datetime.now(timezone.utc).replace(microsecond=0).isoformat()
Timestamp(now) == [sec |-> now.sec, micro |-> 0, tz |-> "+00:00"]

\* f"{path}\n{query_params}\n{method}\n{timestamp}\n": the lines of the payload
Payload(path, query, method, timestamp) == <<path, query, method, timestamp>>

\* hmac.new(key, payload, sha256).digest(), uninterpreted
Hmac(key, msg) == [key |-> key, msg |-> msg]

\* f"Bearer 1.0:{access_key_id}:{signature}"
AuthHeader(access_key_id, signature) ==
    [scheme |-> "Bearer", version |-> "1.0", key_id |-> access_key_id,
     signature |-> signature]

\* mutant: the timestamp header rendered with a Z suffix
RequestHeaders_ZSuffix(timestamp, auth_header) ==
    [XCrusoeTimestamp |-> [timestamp EXCEPT !.tz = "Z"], Authorization |-> auth_header]

\* the headers of a signed request
RequestHeaders(timestamp, auth_header) ==
    [XCrusoeTimestamp |-> timestamp, Authorization |-> auth_header]

-----------------------------------------------------------------------------
(* AppConfig *)

\* mutant: validate_config without its last check
ValidateConfig_NoUrlCheck(cfg) ==
    IF cfg.crusoe.api_token = "" THEN "CRUSOE_API_TOKEN environment variable is required"
    ELSE IF cfg.crusoe.organization_id = "" THEN "CRUSOE_ORG_ID environment variable is required"
    ELSE IF cfg.splunk.hec_token = "" THEN "SPLUNK_HEC_TOKEN environment variable is required"
    ELSE "ok"

\* AppConfig.validate_config: the message of the ValueError raised, or "ok"
ValidateConfig(cfg) ==
    IF cfg.crusoe.api_token = "" THEN "CRUSOE_API_TOKEN environment variable is required"
    ELSE IF cfg.crusoe.organization_id = "" THEN "CRUSOE_ORG_ID environment variable is required"
    ELSE IF cfg.splunk.hec_token = "" THEN "SPLUNK_HEC_TOKEN environment variable is required"
    ELSE IF cfg.splunk.hec_url = "" THEN "SPLUNK_HEC_URL environment variable is required"
    ELSE "ok"

\* mutant: a daemon whose except Exception clause re-raises
DaemonExcept_Reraise(exc) == IF exc = "KeyboardInterrupt" THEN "break" ELSE "raise"

\* daemon(): the except clauses around one cycle
DaemonExcept(exc) == IF exc = "KeyboardInterrupt" THEN "break" ELSE "continue"

-----------------------------------------------------------------------------
(* Initial state: the process has started, the environment is set *)

PageSizes == 1..MaxPageSize

\* REQUEST_TIMEOUT in the environment: not set, or set to 5 seconds
ConfiguredTimeouts == {DefaultTimeout, 5}

\* AppConfig.from_env(): a variable that is not set reads as ""
Configs ==
    {[crusoe      |-> [api_token |-> t, organization_id |-> o],
      splunk      |-> [hec_token |-> ht, hec_url |-> hu],
      batch_size  |-> b,
      timeout     |-> to,
      max_retries |-> m] :
        t \in {"", "api-token"}, o \in {"", "org"},
        ht \in {"", "hec-token"}, hu \in {"", "https://splunk/hec"},
        b \in PageSizes \cup {DefaultBatchSize},
        to \in ConfiguredTimeouts,
        m \in (1..MaxConfigRetries) \cup {DefaultMaxRetries}}

\* the commands forward-recent and daemon:
\* forward_recent_logs -> forward_logs(start_time, end_time, dry_run)
RecentCalls ==
    {[caller |-> "forward_logs", command |-> c, page_size |-> DefaultBatchSize,
      max_pages |-> None, dry_run |-> d, start_time |-> Some(0),
      end_time |-> Some(1)] :
        c \in {"forward_recent", "daemon"}, d \in BOOLEAN}
    \ {[caller |-> "forward_logs", command |-> "daemon", page_size |-> DefaultBatchSize,
        max_pages |-> None, dry_run |-> TRUE, start_time |-> Some(0),
        end_time |-> Some(1)]}

\* the command forward-range --end-time ...: forward_logs(None, end_dt, False)
RangeCalls ==
    {[caller |-> "forward_logs", command |-> "forward_range",
      page_size |-> DefaultBatchSize, max_pages |-> None, dry_run |-> FALSE,
      start_time |-> None, end_time |-> Some(1)]}

ForwardCalls == RecentCalls \cup RangeCalls

\* a direct call get_audit_logs_paginated(page_size=..., max_pages=...)
DirectCalls ==
    {[caller |-> "direct", command |-> "script", page_size |-> p, max_pages |-> mp,
      dry_run |-> FALSE, start_time |-> None, end_time |-> None] :
        p \in PageSizes \cup {DefaultBatchSize},
        mp \in {None} \cup {Some(k) : k \in 0..MaxPagesArg}}

Endpoints ==
    {[kind |-> "slice", n |-> n, status |-> 200] : n \in (0..MaxItems) \cup {237}}
    \cup {[kind |-> "any", n |-> 0, status |-> 200]}
    \cup {[kind |-> "fixed", n |-> 0, status |-> s] : s \in ErrorStatuses}
    \cup {[kind |-> "down", n |-> 0, status |-> 0]}

\* page_size the call will use
CallPageSize(cfg, c) == IF c.caller = "forward_logs" THEN cfg.batch_size ELSE c.page_size

\* all four required settings are present
Complete(cfg) ==
    /\ cfg.crusoe.api_token # ""
    /\ cfg.crusoe.organization_id # ""
    /\ cfg.splunk.hec_token # ""
    /\ cfg.splunk.hec_url # ""

NoHeaders == [Authorization |-> <<>>, ContentType |-> "", UserAgent |-> ""]

NoSignature == [ok |-> FALSE, timestamp |-> Timestamp([sec |-> 0, micro |-> 0]),
                padded |-> <<>>, key |-> <<>>, payload |-> <<>>,
                auth_header |-> AuthHeader("", <<>>)]

\* no signing script is running
SignerIdle ==
    [phase |-> "idle", secret_bytes |-> <<>>, secret |-> <<>>, params |-> <<>>,
     now |-> [sec |-> 0, micro |-> 0], query |-> <<>>, made |-> NoSignature,
     headers |-> RequestHeaders(NoSignature.timestamp, NoSignature.auth_header)]

FetchIdle ==
    /\ page_size = 0
    /\ max_pages = None
    /\ all_logs = <<>>
    /\ offset = 0
    /\ page_count = 0
    /\ requests = <<>>
    /\ attempts = 0
    /\ retries_left = 0
    /\ last_response = NoResponse
    /\ page_error = "none"
    /\ result = <<>>
    /\ splunk_calls = <<>>
    /\ fwd_result = None

Init ==
    /\ config \in Configs
    /\ call \in ForwardCalls \cup DirectCalls
    /\ call.caller = "direct" => config.batch_size = DefaultBatchSize
    /\ endpoint \in Endpoints
    \* an incomplete configuration is tried with the commands, against an
    \* endpoint that would serve them
    /\ ~Complete(config) =>
          /\ call.caller = "forward_logs"
          /\ endpoint.kind = "slice"
          /\ config.max_retries = DefaultMaxRetries
    \* a configured timeout is tried with the commands and the smallest page
    /\ config.timeout # DefaultTimeout =>
          /\ Complete(config)
          /\ call.caller = "forward_logs"
          /\ config.batch_size = 1
    \* the default page size and the documented 237-item collection go together
    /\ (CallPageSize(config, call) = DefaultBatchSize)
          <=> (endpoint.kind = "slice" /\ endpoint.n = 237)
    /\ session = [headers |-> NoHeaders]
    /\ pc = "init"
    /\ FetchIdle
    /\ forwarder = "none"
    /\ exit_code = None
    /\ exit_reason = "none"
    /\ cycles = <<>>
    /\ reported = "none"
    /\ cancel_requested = FALSE
    /\ signer = SignerIdle

-----------------------------------------------------------------------------
(* Actions *)

\* cli(): from_env, validate_config, LogForwarder(config); any exception is
\* logged and the process exits with status 1
CliInit ==
    /\ pc = "init"
    /\ call.caller = "forward_logs"
    /\ IF ValidateConfig(config) = "ok"
       THEN /\ session' = [headers |-> SessionHeaders(config.crusoe)]
            /\ forwarder' = "constructed"
            /\ pc' = "start"
            /\ UNCHANGED <<exit_code, exit_reason>>
       ELSE /\ exit_reason' = ValidateConfig(config)
            /\ exit_code' = Some(1)
            /\ pc' = "exited"
            /\ UNCHANGED <<session, forwarder>>
    /\ UNCHANGED <<config, endpoint, call, page_size, max_pages, all_logs,
                   offset, page_count, requests, attempts, retries_left,
                   last_response, page_error, result, splunk_calls, fwd_result,
                   cycles, signer, reported, cancel_requested>>

\* a script: AppConfig.from_env() and CrusoeClient(config.crusoe), unvalidated
ScriptInit ==
    /\ pc = "init"
    /\ call.caller = "direct"
    /\ session' = [headers |-> SessionHeaders(config.crusoe)]
    /\ pc' = "start"
    /\ UNCHANGED <<proc_vars, config, endpoint, call, page_size, max_pages,
                   all_logs, offset, page_count, requests, attempts,
                   retries_left, last_response, page_error, result,
                   splunk_calls, fwd_result>>

\* get_audit_logs_paginated, lines 138-140
Enter(ps, mp) ==
    /\ page_size' = ps
    /\ max_pages' = mp
    /\ all_logs' = <<>>
    /\ offset' = 0
    /\ page_count' = 0
    /\ pc' = "loop"
    /\ UNCHANGED <<proc_vars, config, session, endpoint, call, requests, attempts,
                   retries_left, last_response, page_error, result,
                   splunk_calls, fwd_result>>

\* forward_logs calls get_audit_logs_paginated(page_size=config.batch_size)
ForwardLogsCall ==
    /\ pc = "start"
    /\ call.caller = "forward_logs"
    /\ Enter(config.batch_size, None)

\* get_audit_logs_paginated(page_size=..., max_pages=...) called directly
DirectCall ==
    /\ pc = "start"
    /\ call.caller = "direct"
    /\ Enter(call.page_size, call.max_pages)

\* top of the loop: the max_pages break, then return all_logs
MaxPagesBreak ==
    /\ pc = "loop"
    /\ MaxPagesReached(max_pages, page_count)
    /\ result' = all_logs
    /\ pc' = "returned"
    /\ UNCHANGED <<proc_vars, config, session, endpoint, call, page_size, max_pages,
                   all_logs, offset, page_count, requests, attempts,
                   retries_left, last_response, page_error, splunk_calls,
                   fwd_result>>

\* get_audit_logs(limit=page_size, offset=offset) up to session.get
IssuePageRequest ==
    /\ pc = "loop"
    /\ ~MaxPagesReached(max_pages, page_count)
    /\ requests' = Append(requests,
          [method  |-> "GET",
           offset  |-> offset,
           params  |-> Params(call.start_time, call.end_time,
                              Some(page_size), Some(offset)),
           headers |-> session.headers,
           timeout |-> RequestTimeout])
    /\ attempts' = 0
    /\ retries_left' = RetryTotal
    /\ page_error' = "none"
    /\ pc' = "send"
    /\ UNCHANGED <<proc_vars, config, session, endpoint, call, page_size, max_pages,
                   all_logs, offset, page_count, last_response, result,
                   splunk_calls, fwd_result>>

CurrentRequest == requests[Len(requests)]

\* mutant: a failed page fetch is logged and the loop goes on
Failed_Continue(exc) ==
    /\ page_error' = exc
    /\ pc' = "loop"
    /\ result' = result
    /\ UNCHANGED <<all_logs, offset, page_count>>

\* the page fetch raised exc: the except clauses of get_audit_logs_paginated
Failed(exc) ==
    /\ page_error' = exc
    /\ IF ExceptClause(exc) = "raise"
       THEN pc' = "raised" /\ result' = result
       ELSE pc' = "returned" /\ result' = all_logs
    /\ UNCHANGED <<all_logs, offset, page_count>>

\* an HTTP attempt that urllib3 retries
HttpRetry ==
    /\ pc = "send"
    /\ \E r \in EndpointResponses(CurrentRequest) :
          /\ IsRetry(CurrentRequest.method, r)
          /\ ~IsExhausted(Increment(retries_left))
          /\ last_response' = r
    /\ attempts' = attempts + 1
    /\ retries_left' = Increment(retries_left)
    /\ UNCHANGED <<proc_vars, config, session, endpoint, call, pc, page_size, max_pages,
                   all_logs, offset, page_count, requests, page_error, result,
                   splunk_calls, fwd_result>>

\* an HTTP attempt that urllib3 would retry, with no retry left
HttpRetriesExhausted ==
    /\ pc = "send"
    /\ \E r \in EndpointResponses(CurrentRequest) :
          /\ IsRetry(CurrentRequest.method, r)
          /\ IsExhausted(Increment(retries_left))
          /\ last_response' = r
    /\ attempts' = attempts + 1
    /\ retries_left' = Increment(retries_left)
    /\ Failed(RetriesExhaustedError)
    /\ UNCHANGED <<proc_vars, config, session, endpoint, call, page_size, max_pages,
                   requests, splunk_calls, fwd_result>>

\* an HTTP attempt whose response get_audit_logs turns into an exception
PageFailed ==
    /\ pc = "send"
    /\ \E r \in EndpointResponses(CurrentRequest) :
          /\ ~IsRetry(CurrentRequest.method, r)
          /\ last_response' = r
          /\ \E o \in GetAuditLogsOutcomes(r) :
                /\ o.exc # "none"
                /\ Failed(o.exc)
    /\ attempts' = attempts + 1
    /\ UNCHANGED <<proc_vars, config, session, endpoint, call, page_size, max_pages,
                   requests, retries_left, splunk_calls, fwd_result>>

\* an HTTP attempt whose response get_audit_logs returns as logs, and the
\* rest of the loop body
PageReceived ==
    /\ pc = "send"
    /\ \E r \in EndpointResponses(CurrentRequest) :
          /\ ~IsRetry(CurrentRequest.method, r)
          /\ last_response' = r
          /\ \E o \in GetAuditLogsOutcomes(r) :
                /\ o.exc = "none"
                /\ IF AfterPage(o.logs, page_size) = "break"
                   THEN /\ UNCHANGED <<all_logs, offset, page_count>>
                        /\ result' = all_logs
                        /\ pc' = "returned"
                   ELSE /\ all_logs' = Extend(all_logs, o.logs)
                        /\ offset' = NextOffset(offset, o.logs)
                        /\ page_count' = page_count + 1
                        /\ IF AfterPage(o.logs, page_size) = "last"
                           THEN result' = all_logs' /\ pc' = "returned"
                           ELSE result' = result /\ pc' = "loop"
    /\ attempts' = attempts + 1
    /\ page_error' = "none"
    /\ UNCHANGED <<proc_vars, config, session, endpoint, call, page_size, max_pages,
                   requests, retries_left, splunk_calls, fwd_result>>

\* mutant: forward_logs without the dry-run branch
AfterFetch_IgnoreDryRun(logs, dry_run) ==
    IF logs = <<>> THEN "none_found" ELSE "send"

\* mutant: forward_logs without the branch for an empty fetch
AfterFetch_SendEmpty(logs, dry_run) ==
    IF dry_run THEN "dry_run" ELSE "send"

\* forward_logs after the fetch returned: `if not logs`, `if dry_run`, or send
AfterFetch(logs, dry_run) ==
    IF logs = <<>> THEN "none_found"
    ELSE IF dry_run THEN "dry_run"
    ELSE "send"

\* forward_logs after the fetch returned: no logs, or dry run
ForwardLogsReturn ==
    /\ pc = "returned"
    /\ call.caller = "forward_logs"
    /\ AfterFetch(result, call.dry_run) \in {"none_found", "dry_run"}
    /\ fwd_result' = IF AfterFetch(result, call.dry_run) = "none_found"
                      THEN Some(0)
                      ELSE Some(Len(result))
    /\ pc' = "fwd_returned"
    /\ UNCHANGED <<proc_vars, config, session, endpoint, call, page_size, max_pages,
                   all_logs, offset, page_count, requests, attempts,
                   retries_left, last_response, page_error, result,
                   splunk_calls>>

\* forward_logs after the fetch returned: send_events_batch(logs, batch_size)
ForwardLogsSend ==
    /\ pc = "returned"
    /\ call.caller = "forward_logs"
    /\ AfterFetch(result, call.dry_run) = "send"
    /\ splunk_calls' = Append(splunk_calls,
          [events |-> result, batch_size |-> config.batch_size])
    /\ \E o \in SendEventsBatchOutcomes(result, config.batch_size) :
          IF o.exc = "none"
          THEN fwd_result' = Some(o.sent) /\ pc' = "fwd_returned"
          ELSE fwd_result' = fwd_result /\ pc' = "fwd_raised"
    /\ UNCHANGED <<proc_vars, config, session, endpoint, call, page_size, max_pages,
                   all_logs, offset, page_count, requests, attempts,
                   retries_left, last_response, page_error, result>>

\* forward_logs after the fetch raised: except CrusoeAPIError: log and raise
ForwardLogsReraise ==
    /\ pc = "raised"
    /\ call.caller = "forward_logs"
    /\ pc' = "fwd_raised"
    /\ UNCHANGED <<proc_vars, config, session, endpoint, call, page_size, max_pages,
                   all_logs, offset, page_count, requests, attempts,
                   retries_left, last_response, page_error, result,
                   splunk_calls, fwd_result>>

\* the fetch and forward locals after forward_logs has returned or raised
FetchReset ==
    /\ page_size' = 0
    /\ max_pages' = None
    /\ all_logs' = <<>>
    /\ offset' = 0
    /\ page_count' = 0
    /\ requests' = <<>>
    /\ attempts' = 0
    /\ retries_left' = 0
    /\ last_response' = NoResponse
    /\ page_error' = "none"
    /\ result' = <<>>
    /\ splunk_calls' = <<>>
    /\ fwd_result' = None

\* the exception forward_logs raised to the daemon loop
CycleError == IF splunk_calls = <<>> THEN page_error ELSE "SplunkHECError"

\* the caller of a fetch asks, between two pages, for it to be cancelled;
\* get_audit_logs_paginated has no parameter or attribute that receives it
RequestCancel ==
    /\ call.caller = "direct"
    /\ pc = "loop"
    /\ page_count >= 1
    /\ ~cancel_requested
    /\ cancel_requested' = TRUE
    /\ UNCHANGED <<config, session, endpoint, call, pc, page_size, max_pages,
                   all_logs, offset, page_count, requests, attempts,
                   retries_left, last_response, page_error, result,
                   splunk_calls, fwd_result, forwarder, exit_code, exit_reason,
                   cycles, signer, reported>>

\* mutant: a one-shot command that reports the error and ends normally
CommandExcept_NoExit(exc) == [reported |-> "error", status |-> 0]

\* forward_recent / forward_range: except Exception: echo the error, sys.exit(1)
CommandExcept(exc) == [reported |-> "error", status |-> 1]

\* forward_recent / forward_range: forward_logs is over; the command echoes
\* the count, or the error, and the process ends
CommandExit ==
    /\ call.command \in {"forward_recent", "forward_range"}
    /\ pc \in {"fwd_returned", "fwd_raised"}
    /\ IF pc = "fwd_returned"
       THEN /\ reported' = "success"
            /\ exit_code' = Some(0)
            /\ exit_reason' = "none"
       ELSE /\ reported' = CommandExcept(CycleError).reported
            /\ exit_code' = Some(CommandExcept(CycleError).status)
            /\ exit_reason' = CycleError
    /\ pc' = "exited"
    /\ FetchReset
    /\ UNCHANGED <<config, session, endpoint, call, forwarder, cycles, signer,
                   cancel_requested>>

\* daemon(): a cycle is over; its exception, if any, meets the except clauses
DaemonCycleEnd ==
    /\ call.command = "daemon"
    /\ pc \in {"fwd_returned", "fwd_raised"}
    /\ cycles' = Append(cycles, IF pc = "fwd_raised" THEN "failed" ELSE "completed")
    /\ IF pc = "fwd_returned" \/ DaemonExcept(CycleError) = "continue"
       THEN pc' = "sleep" /\ UNCHANGED <<exit_code, exit_reason>>
       ELSE IF DaemonExcept(CycleError) = "break"
       THEN pc' = "stopped" /\ exit_code' = Some(0) /\ exit_reason' = "interrupt"
       ELSE pc' = "exited" /\ exit_code' = Some(1) /\ exit_reason' = CycleError
    /\ FetchReset
    /\ UNCHANGED <<config, session, endpoint, call, forwarder, signer, reported,
                   cancel_requested>>

\* daemon(): time.sleep(interval) is over, the loop starts the next cycle
DaemonNextCycle ==
    /\ call.command = "daemon"
    /\ pc = "sleep"
    /\ Len(cycles) <= MaxCycles
    /\ pc' = "start"
    /\ UNCHANGED <<proc_vars, config, session, endpoint, call, page_size, max_pages,
                   all_logs, offset, page_count, requests, attempts,
                   retries_left, last_response, page_error, result,
                   splunk_calls, fwd_result>>

\* the user interrupts the daemon: inside the try statement KeyboardInterrupt
\* meets the except clauses; during the sleep it leaves daemon()
DaemonInterrupt ==
    /\ call.command = "daemon"
    /\ pc \in {"start", "loop", "send", "returned", "raised", "sleep"}
    /\ exit_reason' = "interrupt"
    /\ IF pc # "sleep" /\ DaemonExcept("KeyboardInterrupt") = "break"
       THEN pc' = "stopped" /\ exit_code' = Some(0)
       ELSE pc' = "exited" /\ exit_code' = Some(1)
    /\ FetchReset
    /\ UNCHANGED <<config, session, endpoint, call, forwarder, cycles, signer,
                   reported, cancel_requested>>

Next ==
    \/ CliInit
    \/ ScriptInit
    \/ ForwardLogsCall
    \/ DirectCall
    \/ MaxPagesBreak
    \/ IssuePageRequest
    \/ HttpRetry
    \/ HttpRetriesExhausted
    \/ PageFailed
    \/ PageReceived
    \/ ForwardLogsReturn
    \/ ForwardLogsSend
    \/ RequestCancel
    \/ ForwardLogsReraise
    \/ CommandExit
    \/ DaemonCycleEnd
    \/ DaemonNextCycle
    \/ DaemonInterrupt

Spec == Init /\ [][Next]_vars

-----------------------------------------------------------------------------
(* The signing scripts: a second specification over the variable signer *)

\* the query parameters the scripts sign: a=1, b=2, ab="+:", B=10
ParamPairs ==
    {[key |-> <<97>>,     value |-> [type |-> "int", n |-> 1, s |-> <<>>]],
     [key |-> <<98>>,     value |-> [type |-> "int", n |-> 2, s |-> <<>>]],
     [key |-> <<97, 98>>, value |-> [type |-> "str", n |-> 0, s |-> <<43, 58>>]],
     [key |-> <<66>>,     value |-> [type |-> "int", n |-> 10, s |-> <<>>]]}

\* a dict literal: its items in insertion order, no key twice
ParamDicts ==
    UNION {{d \in [1..k -> ParamPairs] :
               \A i, j \in 1..k : i # j => d[i].key # d[j].key} : k \in 0..MaxParams}

\* the bytes of a secret key
SecretByteValues == {77, 251}
SecretKeys == UNION {[1..k -> SecretByteValues] : k \in 0..MaxSecretBytes}

\* CRUSOE_SECRET_ACCESS_KEY as configured: the base64 text of the key, with
\* none, some or all of its padding characters missing
StrippedSecrets(bytes) ==
    LET full == B64Encode(bytes)
        pads == Len(full) - Len(RStrip(full))
    IN  {SubSeq(full, 1, Len(full) - k) : k \in 0..pads}

AccessKeyId == "access-key-id"
SignedMethod == "GET"
SignedPath == "/organizations/org/audit-logs"

SignInit ==
    /\ config = CHOOSE c \in Configs :
          Complete(c) /\ c.batch_size = DefaultBatchSize
                      /\ c.max_retries = DefaultMaxRetries
    /\ call = CHOOSE c \in DirectCalls :
          c.page_size = DefaultBatchSize /\ c.max_pages = None
    /\ endpoint = CHOOSE e \in Endpoints : e.kind = "down"
    /\ session = [headers |-> NoHeaders]
    /\ pc = "script"
    /\ FetchIdle
    /\ forwarder = "none"
    /\ exit_code = None
    /\ exit_reason = "none"
    /\ cycles = <<>>
    /\ reported = "none"
    /\ cancel_requested = FALSE
    /\ \E bytes \in SecretKeys, m \in {0, 500000} :
          \E secret \in StrippedSecrets(bytes), d \in ParamDicts :
             signer = [SignerIdle EXCEPT !.phase = "start",
                                         !.secret_bytes = bytes,
                                         !.secret = secret,
                                         !.params = d,
                                         !.now = [sec |-> 0, micro |-> m]]

\* the variables the signing scripts do not touch
fetch_vars == <<config, session, endpoint, call, pc, page_size, max_pages,
                all_logs, offset, page_count, requests, attempts,
                retries_left, last_response, page_error, result,
                splunk_calls, fwd_result, forwarder, exit_code, exit_reason,
                cycles, reported, cancel_requested>>

\* time passes
ClockTick ==
    /\ signer.phase \in {"start", "query", "signed"}
    /\ signer.now.sec < MaxClock
    /\ signer' = [signer EXCEPT !.now.sec = @ + 1]
    /\ UNCHANGED fetch_vars

\* sorted_params = sorted(params.items()); "&".join(...)
BuildQuery ==
    /\ signer.phase = "start"
    /\ signer' = [signer EXCEPT !.phase = "query",
                                !.query = Canonicalize(signer.params)]
    /\ UNCHANGED fetch_vars

\* create_crusoe_signature(access_key_id, secret_key, method, path, query_params)
CreateSignature(access_key_id, secret_key, method, path, query_params, now) ==
    LET timestamp == Timestamp(now)
        payload   == Payload(path, query_params, method, timestamp)
        padded    == RestorePadding(secret_key)
        decoded   == B64Decode(padded)
        signature == [b64 |-> Hmac(decoded.bytes, payload)]
    IN  [ok          |-> decoded.ok,
         timestamp   |-> timestamp,
         padded      |-> padded,
         key         |-> decoded.bytes,
         payload     |-> payload,
         auth_header |-> AuthHeader(access_key_id, signature)]

CreateCrusoeSignature ==
    /\ signer.phase = "query"
    /\ LET made == CreateSignature(AccessKeyId, signer.secret, SignedMethod,
                                   SignedPath, signer.query, signer.now)
       IN  signer' = [signer EXCEPT !.phase = IF made.ok THEN "signed" ELSE "failed",
                                    !.made = made]
    /\ UNCHANGED fetch_vars

\* headers = {"X-Crusoe-Timestamp": timestamp, "Authorization": auth_header}
SendSignedRequest ==
    /\ signer.phase = "signed"
    /\ signer' = [signer EXCEPT !.phase = "sent",
                                !.headers = RequestHeaders(signer.made.timestamp,
                                                           signer.made.auth_header)]
    /\ UNCHANGED fetch_vars

SignNext ==
    \/ ClockTick
    \/ BuildQuery
    \/ CreateCrusoeSignature
    \/ SendSignedRequest

SignSpec == SignInit /\ [][SignNext]_vars

-----------------------------------------------------------------------------
(* Vocabulary of the properties *)

\* get_audit_logs_paginated returned a list / raised to its caller
FetchReturned ==
    \/ pc \in {"returned", "fwd_returned"}
    \/ pc = "fwd_raised" /\ splunk_calls # <<>>
FetchRaised ==
    \/ pc = "raised"
    \/ pc = "fwd_raised" /\ splunk_calls = <<>>

\* the call issues no further page request and makes no further HTTP attempt
NoFurtherRequest ==
    /\ ~ENABLED IssuePageRequest
    /\ ~ENABLED HttpRetry
    /\ ~ENABLED HttpRetriesExhausted
    /\ ~ENABLED PageFailed
    /\ ~ENABLED PageReceived

\* the latest HTTP attempt was answered 200 with a list of items
GotPage == last_response.kind = "http" /\ last_response.status = 200
           /\ last_response.body \in {"items", "noitems"}

\* the latest HTTP attempt was answered with one of these statuses
Answered(statuses) == last_response.kind = "http" /\ last_response.status \in statuses

-----------------------------------------------------------------------------
(* C1: against an endpoint serving the slice [offset, offset+P) of N items,  *)
(* a fetch without max_pages requests the offsets 0, P, 2P, ... in order,    *)
(* never raises, and returns all N items; 237 items with P = 100 and 5 items *)
(* with P = 2 both take exactly 3 requests.                                  *)
C1_SliceFetchReturnsAll ==
    (endpoint.kind = "slice" /\ call.max_pages = None) =>
        /\ \A i \in 1..Len(requests) :
              /\ requests[i].offset = (i - 1) * page_size
              /\ ReqOffset(requests[i]) = (i - 1) * page_size
        /\ ~FetchRaised
        /\ FetchReturned => result = Items(0, endpoint.n)
        /\ (FetchReturned /\ endpoint.n = 237 /\ page_size = 100) =>
              /\ Len(requests) = 3
              /\ {requests[i].offset : i \in 1..3} = {0, 100, 200}
        /\ (FetchReturned /\ endpoint.n = 5 /\ page_size = 2) =>
              /\ Len(requests) = 3
              /\ <<requests[1].offset, requests[2].offset, requests[3].offset>>
                    = <<0, 2, 4>>

C1_Witness ==
    /\ endpoint.kind = "slice" /\ endpoint.n = 237 /\ call.max_pages = None
    /\ page_size = 100
    /\ FetchReturned
    /\ Len(requests) = 3
    /\ Len(result) = 237

(* C2: when the first HTTP call of a fetch is answered with an empty item    *)
(* list, the fetch has issued exactly one request, returns, and its result   *)
(* is the empty list.                                                        *)
C2_EmptyFirstPage ==
    (GotPage /\ last_response.items = <<>> /\ Len(requests) = 1 /\ attempts = 1) =>
        /\ FetchReturned
        /\ result = <<>>
        /\ NoFurtherRequest

C2_Witness ==
    /\ GotPage /\ last_response.items = <<>>
    /\ Len(requests) = 1 /\ attempts = 1
    /\ FetchReturned /\ result = <<>>

(* C3: against an endpoint that always answers 503, a page fetch ends after  *)
(* exactly max_retries HTTP attempts (the configured AppConfig.max_retries)  *)
(* with an error raised to the caller of get_audit_logs_paginated.           *)
C3_AttemptsEqualMaxRetries ==
    (/\ endpoint.kind = "fixed" /\ endpoint.status = 503
     /\ pc \in {"returned", "raised", "fwd_returned", "fwd_raised"}) =>
        /\ FetchRaised
        /\ attempts = config.max_retries

(* C4: a page request answered 401 or 403 is not retried: the fetch raises   *)
(* CrusoeAPIError to its caller, no further request follows, and against an  *)
(* endpoint that always answers so exactly one HTTP request was made.        *)
C4_AuthFailureNotRetried ==
    Answered({401, 403}) =>
        /\ FetchRaised
        /\ page_error = "CrusoeAPIError"
        /\ NoFurtherRequest
        /\ endpoint.kind = "fixed" => (attempts = 1 /\ Len(requests) = 1)

C4_Witness ==
    /\ endpoint.kind = "fixed" /\ endpoint.status = 403
    /\ Answered({403})
    /\ pc = "raised" /\ attempts = 1 /\ Len(requests) = 1

(* C5: no Authorization credential is reused across two page requests of a   *)
(* fetch that differ in offset.                                              *)
C5_CredentialPerRequest ==
    \A i, j \in 1..Len(requests) :
        requests[i].offset # requests[j].offset =>
            requests[i].headers.Authorization # requests[j].headers.Authorization

(* C6: a fetch in which a page fetch raised never ends with a normal return. *)
C6_PageErrorPropagates ==
    FetchReturned => page_error = "none"

(* C7 as stated: when a page request fails with a hard error after earlier   *)
(* pages succeeded, forward_logs forwards the accumulated entries to the log *)
(* collector.                                                                *)
C7_AccumulatedForwarded ==
    (call.caller = "forward_logs" /\ pc = "fwd_raised"
       /\ page_error = "CrusoeAPIError" /\ all_logs # <<>>) =>
        \E k \in 1..Len(splunk_calls) : splunk_calls[k].events = all_logs

(* C7 amended: when a page request fails with a CrusoeAPIError after earlier *)
(* pages succeeded, the fetch raises it to forward_logs, which re-raises     *)
(* without forwarding any entry: the collector is never called and           *)
(* forward_logs returns no count.                                            *)
C7_AccumulatedDiscarded ==
    (call.caller = "forward_logs" /\ page_error = "CrusoeAPIError"
       /\ pc # "send") =>
        /\ FetchRaised
        /\ splunk_calls = <<>>
        /\ fwd_result = None
        /\ NoFurtherRequest

C7_Witness ==
    /\ call.caller = "forward_logs" /\ pc = "fwd_raised"
    /\ page_error = "CrusoeAPIError"
    /\ all_logs # <<>>
    /\ splunk_calls = <<>>

(* C8: whatever the endpoint does, once a page response holds fewer than     *)
(* page_size items (zero included) the fetch has returned and issues no      *)
(* further request.                                                          *)
C8_ShortPageEndsFetch ==
    (GotPage /\ Len(last_response.items) < page_size) =>
        /\ FetchReturned
        /\ NoFurtherRequest

C8_Witness ==
    /\ endpoint.kind = "any"
    /\ GotPage /\ Len(last_response.items) = page_size - 1
    /\ Len(last_response.items) > 0
    /\ Len(requests) = 2
    /\ pc = "returned"

(* C9 as stated: a page request answered 429 or any 5xx status is retried    *)
(* rather than failing on the first response.                                *)
C9_Any5xxRetried ==
    (last_response.kind = "http" /\ attempts = 1
       /\ (last_response.status = 429
           \/ (last_response.status >= 500 /\ last_response.status < 600))) =>
        pc = "send"

(* C9 amended: a page request answered 429, 500, 502, 503 or 504 is retried: *)
(* each of the first 3 such answers leaves the request in flight, and only   *)
(* the 4th in a row fails the page fetch.                                    *)
C9_ForcelistRetried ==
    Answered({429, 500, 502, 503, 504}) =>
        /\ attempts <= 4
        /\ attempts <= 3 => pc = "send"
        /\ attempts = 4 => FetchRaised

C9_Witness ==
    /\ Answered({429}) /\ attempts = 3 /\ pc = "send"

(* C10: a page request answered 404 is fatal and not retried: the fetch      *)
(* raises CrusoeAPIError to its caller, no further request follows, and      *)
(* against an endpoint that always answers 404 exactly one HTTP request was  *)
(* made.                                                                     *)
C10_NotFoundNotRetried ==
    Answered({404}) =>
        /\ FetchRaised
        /\ page_error = "CrusoeAPIError"
        /\ NoFurtherRequest
        /\ endpoint.kind = "fixed" => (attempts = 1 /\ Len(requests) = 1)

C10_Witness ==
    /\ endpoint.kind = "fixed" /\ endpoint.status = 404
    /\ Answered({404})
    /\ pc = "raised" /\ attempts = 1 /\ Len(requests) = 1

\* the error kinds get_audit_logs raises for a response with one of these statuses
ErrorKinds(statuses) ==
    UNION {{o.exc : o \in GetAuditLogsOutcomes(Http(s, "none", <<>>))} : s \in statuses}

(* C11: a failure that reaches the caller of the fetch and is not a 401 or   *)
(* 403 answer (a 404, an exhausted 429/5xx, anything else) has an error kind *)
(* different from the kinds raised for 401 and 403.                          *)
C11_AuthKindDistinct ==
    (FetchRaised /\ last_response.kind # "none" /\ ~Answered({401, 403})) =>
        page_error \notin ErrorKinds({401, 403})

(* C12: the page requests of one fetch are made one after the other: a       *)
(* request is issued only when every earlier request has been answered with  *)
(* a page, the offset it passes is the number of items received from the     *)
(* earlier pages (offset = len(all_logs)), and the offsets requested are     *)
(* strictly increasing.                                                      *)
C12_SequentialOffsets ==
    /\ offset = Len(all_logs)
    /\ Len(requests) \in {page_count, page_count + 1}
    /\ pc = "send" =>
          /\ Len(requests) = page_count + 1
          /\ CurrentRequest.offset = Len(all_logs)
          /\ ReqOffset(CurrentRequest) = Len(all_logs)
    /\ \A i, j \in 1..Len(requests) :
          i < j => requests[i].offset < requests[j].offset

C12_Witness ==
    /\ pc = "send"
    /\ Len(requests) = 3
    /\ page_count = 2
    /\ CurrentRequest.offset = Len(all_logs)
    /\ requests[1].offset < requests[2].offset
    /\ requests[2].offset < requests[3].offset

\* the state of the fetch call in the terms of the state machine
FetchPhase ==
    CASE pc = "start"                    -> "Start"
      [] pc = "loop" /\ page_count = 0   -> "Start"
      [] pc = "loop" /\ page_count > 0   -> "HasMore"
      [] pc = "send"                     -> "FetchingPage"
      [] FetchRaised                     -> "Error"
      [] FetchReturned                   -> "Done"
      [] OTHER                           -> "NoCall"

\* the transitions of a fetch call; NoCall is before the call and after its
\* caller is done with it; a step of the caller between two pages leaves
\* the call in HasMore
PhaseTransitions ==
    {<<"Start", "Start">>, <<"Start", "FetchingPage">>,
     <<"FetchingPage", "FetchingPage">>, <<"FetchingPage", "HasMore">>,
     <<"FetchingPage", "Done">>, <<"FetchingPage", "Error">>,
     <<"HasMore", "FetchingPage">>, <<"HasMore", "Done">>,
     <<"HasMore", "HasMore">>,
     <<"Done", "Done">>, <<"Error", "Error">>,
     <<"NoCall", "NoCall">>, <<"NoCall", "Start">>}
    \cup {<<p, "NoCall">> : p \in {"Start", "FetchingPage", "HasMore", "Done", "Error"}}

(* C13: a fetch call moves Start -> FetchingPage -> {HasMore -> FetchingPage *)
(* | Done}, a page request that fails takes it from FetchingPage to Error or *)
(* Done, and once it is in Error or Done it stays there and issues no        *)
(* further page request and makes no further HTTP attempt.                   *)
C13_ErrorAndDoneAbsorbing ==
    [][/\ <<FetchPhase, FetchPhase'>> \in PhaseTransitions
       /\ (FetchPhase = "FetchingPage" /\ page_error' # "none") =>
             FetchPhase' \in {"Error", "Done"}
       /\ (FetchPhase \in {"Error", "Done"} /\ FetchPhase' # "NoCall") =>
             /\ FetchPhase' = FetchPhase
             /\ requests' = requests
             /\ attempts' = attempts]_vars

C13_Witness ==
    /\ FetchPhase = "Error"
    /\ page_error # "none"
    /\ page_count >= 1
    /\ Len(requests) = page_count + 1
    /\ NoFurtherRequest

(* C14: when max_pages is given to get_audit_logs_paginated, whatever its    *)
(* value and whatever the endpoint does, the call issues at most max_pages   *)
(* page requests.                                                            *)
C14_MaxPagesBoundsRequests ==
    (call.caller = "direct" /\ call.max_pages.some) =>
        Len(requests) <= call.max_pages.v

\* the messages that name a required setting this configuration lacks
MissingMessages(cfg) ==
    {m \in {"CRUSOE_API_TOKEN environment variable is required",
            "CRUSOE_ORG_ID environment variable is required",
            "SPLUNK_HEC_TOKEN environment variable is required",
            "SPLUNK_HEC_URL environment variable is required"} :
        \/ m = "CRUSOE_API_TOKEN environment variable is required"
              /\ cfg.crusoe.api_token = ""
        \/ m = "CRUSOE_ORG_ID environment variable is required"
              /\ cfg.crusoe.organization_id = ""
        \/ m = "SPLUNK_HEC_TOKEN environment variable is required"
              /\ cfg.splunk.hec_token = ""
        \/ m = "SPLUNK_HEC_URL environment variable is required"
              /\ cfg.splunk.hec_url = ""}

(* C19: when the Crusoe token, the organization id, the Splunk HEC token or  *)
(* the Splunk HEC URL is missing, the CLI's first step ends the process with *)
(* exit status 1 and an error naming a missing setting; no forwarder and no  *)
(* client session were constructed and no request was made to the API or to  *)
(* the log collector.                                                        *)
C19_ValidatedBeforeFetch ==
    (call.caller = "forward_logs" /\ ~Complete(config) /\ pc # "init") =>
        /\ pc = "exited"
        /\ exit_code.some /\ exit_code.v # 0
        /\ exit_reason \in MissingMessages(config)
        /\ forwarder = "none"
        /\ session.headers = NoHeaders
        /\ requests = <<>> /\ attempts = 0
        /\ splunk_calls = <<>>

C19_Witness ==
    /\ config.crusoe.api_token # "" /\ config.crusoe.organization_id # ""
    /\ config.splunk.hec_token # "" /\ config.splunk.hec_url = ""
    /\ pc = "exited"
    /\ exit_code = Some(1)
    /\ exit_reason = "SPLUNK_HEC_URL environment variable is required"
    /\ forwarder = "none"

(* C20: in daemon mode a cycle that failed with an error does not end the    *)
(* process: the daemon goes to sleep and from the sleep starts the next      *)
(* cycle, and when the daemon's loop has ended, a user interrupt ended it.   *)
C20_DaemonSurvivesFailedCycle ==
    [][call.command = "daemon" =>
          /\ pc = "fwd_raised" =>
                \/ pc' = "sleep" /\ cycles' = Append(cycles, "failed")
                                 /\ exit_code' = None
          /\ (pc = "sleep" /\ pc' # "sleep") =>
                \/ pc' = "start" /\ exit_code' = None /\ cycles' = cycles
                \/ pc' = "exited" /\ exit_reason' = "interrupt"
          /\ (forwarder = "constructed" /\ exit_code'.some) =>
                exit_reason' = "interrupt"]_vars

C20_Witness ==
    /\ call.command = "daemon"
    /\ cycles = <<"failed">>
    /\ pc = "send"
    /\ Len(requests) = 1
    /\ exit_code = None

(* C15: in every signed request the X-Crusoe-Timestamp header is the very    *)
(* timestamp that is in the payload signed for the Authorization header of   *)
(* that request, whatever time has passed since the signature was made.      *)
C15_HeaderTimestampIsSigned ==
    signer.phase = "sent" =>
        /\ signer.headers.Authorization = signer.made.auth_header
        /\ signer.headers.XCrusoeTimestamp
              = signer.headers.Authorization.signature.b64.msg[4]

C15_Witness ==
    /\ signer.phase = "sent"
    /\ signer.now.sec > signer.made.timestamp.sec
    /\ signer.now.micro # 0
    /\ signer.headers.XCrusoeTimestamp = signer.made.payload[4]

\* the orders in which the items of a dict can have been inserted
Orders(items) ==
    {[i \in 1..Len(items) |-> items[f[i]]] : f \in Permutations(1..Len(items))}

\* the items are in ascending order of their keys
Ascending(items) ==
    \A i, j \in 1..Len(items) : i < j => LexLess(items[i].key, items[j].key)

(* C16: the canonical query of a parameter dict is its key=value pairs, with *)
(* the values as they are, joined with & in ascending order of the keys; it  *)
(* is the empty string for the empty dict, the same for every insertion      *)
(* order, and a=1&b=2 for {"b": 2, "a": 1}.                                  *)
C16_CanonicalQuery ==
    signer.phase \in {"query", "signed", "sent"} =>
        /\ \E p \in Orders(signer.params) : Ascending(p) /\ signer.query = Join(p)
        /\ signer.params = <<>> => signer.query = <<>>
        /\ \A p \in Orders(signer.params) : Canonicalize(p) = signer.query
        /\ (Len(signer.params) = 1 /\ signer.params[1].key = <<97, 98>>)
              => signer.query = <<97, 98, 61, 43, 58>>
        /\ ([i \in 1..Len(signer.params) |-> signer.params[i].key] = <<<<98>>, <<97>>>>)
              => signer.query = <<97, 61, 49, 38, 98, 61, 50>>

C16_Witness ==
    /\ signer.phase = "query"
    /\ [i \in 1..Len(signer.params) |-> signer.params[i].key] = <<<<98>>, <<97>>>>
    /\ signer.query = <<97, 61, 49, 38, 98, 61, 50>>

\* the least number of characters that makes a length a multiple of 4
MissingPadding(n) == CHOOSE k \in 0..3 : (n + k) % 4 = 0

(* C18: the secret is restored by appending (-len mod 4) padding characters, *)
(* 0 to 3 of them, which makes its length a multiple of 4; a secret that has *)
(* lost none, some or all of its padding decodes to the bytes of the fully   *)
(* padded secret, and restoring a padded secret changes nothing.             *)
C18_PaddingRestored ==
    signer.phase \in {"signed", "sent"} =>
        LET secret == signer.secret
            padded == signer.made.padded
            full   == B64Encode(signer.secret_bytes)
        IN  /\ \A n \in 0..Len(padded) :
                  PadLength(n) = MissingPadding(n) /\ PadLength(n) \in 0..3
            /\ Len(padded) = Len(secret) + MissingPadding(Len(secret))
            /\ SubSeq(padded, 1, Len(secret)) = secret
            /\ \A i \in (Len(secret) + 1)..Len(padded) : padded[i] = PadChar
            /\ Len(padded) % 4 = 0
            /\ padded = full
            /\ signer.made.ok
            /\ signer.made.key = B64Decode(full).bytes
            /\ signer.made.key = signer.secret_bytes
            /\ RestorePadding(padded) = padded
            /\ RestorePadding(full) = full

C18_Witness ==
    /\ signer.phase = "signed"
    /\ Len(signer.secret_bytes) = 1
    /\ Len(signer.secret) = 2
    /\ Len(signer.made.padded) = 4
    /\ signer.made.key = signer.secret_bytes

\* the one-shot commands
OneShot == call.command \in {"forward_recent", "forward_range"}

(* C21: a one-shot command (forward-recent, forward-range) whose fetch or    *)
(* delivery failed with an error ends the process with a non-zero status and *)
(* without reporting success.                                                *)
C21_OneShotFailureExitsNonZero ==
    [][(/\ OneShot
        /\ pc \in {"fwd_returned", "fwd_raised"}
        /\ page_error # "none" \/ pc = "fwd_raised"
        /\ pc' = "exited") =>
           /\ exit_code'.some /\ exit_code'.v # 0
           /\ reported' # "success"]_vars

(* C22: with dry_run, forward_logs runs the paginated fetch, never calls     *)
(* send_events_batch, and when it returns it returns the number of entries   *)
(* the fetch returned.                                                       *)
C22_DryRunSuppressesDelivery ==
    (call.caller = "forward_logs" /\ call.dry_run) =>
        /\ splunk_calls = <<>>
        /\ pc = "fwd_returned" =>
              /\ Len(requests) >= 1
              /\ result = all_logs
              /\ fwd_result = Some(Len(result))

C22_Witness ==
    /\ call.caller = "forward_logs" /\ call.dry_run
    /\ pc = "fwd_returned"
    /\ Len(requests) = 3
    /\ Len(result) = 5
    /\ fwd_result = Some(5)
    /\ splunk_calls = <<>>

(* C23: once a cancellation has been requested between two pages of a fetch, *)
(* that fetch issues no further page request.                                *)
C23_NoRequestAfterCancel ==
    [][cancel_requested => (requests' = requests \/ requests' = <<>>)]_vars

\* this step is the receipt of a successful page response
PageArrives ==
    /\ pc = "send"
    /\ attempts' = attempts + 1
    /\ last_response'.kind = "http" /\ last_response'.status = 200
    /\ last_response'.body \in {"items", "noitems"}

(* C24: during a fetch every successful page response appends its item list  *)
(* to the accumulated list and nothing else changes that list, so when the   *)
(* fetch returns normally the list returned is the concatenation of the item *)
(* lists of the successful responses in request order, and its length is the *)
(* final offset.                                                             *)
C24_ResultIsConcatenation ==
    [][/\ PageArrives => all_logs' = all_logs \o last_response'.items
       /\ (~PageArrives /\ pc \in {"loop", "send"}
             /\ pc' \in {"loop", "send", "returned", "raised"}) =>
                all_logs' = all_logs
       /\ (pc \in {"loop", "send"} /\ pc' = "returned") =>
             /\ result' = all_logs'
             /\ Len(result') = offset']_vars

C24_Witness ==
    /\ pc = "returned"
    /\ endpoint.kind = "any"
    /\ Len(requests) = 3
    /\ result = all_logs
    /\ Len(result) = offset
    /\ Len(result) >= 3
    /\ page_error = "none"

(* C25: when the collection has N = k * page_size items, k >= 1, and         *)
(* max_pages is not given, a fetch that returned has issued k + 1 requests,  *)
(* the last of them at offset N and answered with an empty page, and it      *)
(* returned all N items.                                                     *)
C25_ExactMultipleTakesExtraRequest ==
    (/\ endpoint.kind = "slice" /\ call.max_pages = None
     /\ page_size >= 1 /\ endpoint.n >= 1 /\ endpoint.n % page_size = 0
     /\ FetchReturned) =>
        /\ Len(requests) = (endpoint.n \div page_size) + 1
        /\ CurrentRequest.offset = endpoint.n
        /\ GotPage /\ last_response.items = <<>>
        /\ result = Items(0, endpoint.n)

C25_Witness ==
    /\ endpoint.kind = "slice" /\ endpoint.n = 4 /\ call.max_pages = None
    /\ page_size = 2
    /\ pc = "returned"
    /\ Len(requests) = 3
    /\ CurrentRequest.offset = 4
    /\ last_response.items = <<>>
    /\ Len(result) = 4

(* C26: a page request carries start_time, end_time, limit and offset in its *)
(* query parameters exactly when the value is truthy: the first request of a *)
(* fetch (offset 0) has no offset parameter, every later one has offset      *)
(* equal to the number of items received so far, limit is the page size, and *)
(* the time bounds are present exactly when the caller gave them.            *)
C26_ParamsOnlyWhenTruthy ==
    \A i \in 1..Len(requests) :
        LET p == requests[i].params IN
        /\ i = 1 => "offset" \notin DOMAIN p /\ requests[i].offset = 0
        /\ i > 1 => /\ "offset" \in DOMAIN p
                    /\ p["offset"] = requests[i].offset
                    /\ p["offset"] > 0
        /\ (i = Len(requests) /\ pc = "send" /\ i > 1) => p["offset"] = Len(all_logs)
        /\ "limit" \in DOMAIN p /\ p["limit"] = page_size
        /\ ("start_time" \in DOMAIN p) <=> call.start_time.some
        /\ ("end_time" \in DOMAIN p) <=> call.end_time.some
        /\ "start_time" \in DOMAIN p => p["start_time"] = IsoFormat(call.start_time.v)
        /\ "end_time" \in DOMAIN p => p["end_time"] = IsoFormat(call.end_time.v)

C26_Witness ==
    /\ call.command = "forward_range"
    /\ pc = "send"
    /\ Len(requests) = 2
    /\ DOMAIN requests[1].params = {"end_time", "limit"}
    /\ DOMAIN requests[2].params = {"end_time", "limit", "offset"}
    /\ requests[2].params["offset"] = Len(all_logs)

(* C27: a page request answered 200 with a JSON object that has no `items`   *)
(* key is an empty page and not an error: the fetch ends there and returns   *)
(* normally the items accumulated before it.                                 *)
C27_MissingItemsIsEmptyPage ==
    (last_response.kind = "http" /\ last_response.status = 200
       /\ last_response.body = "noitems") =>
        /\ page_error = "none"
        /\ FetchReturned
        /\ result = all_logs
        /\ Len(result) = CurrentRequest.offset
        /\ NoFurtherRequest

C27_Witness ==
    /\ last_response.kind = "http" /\ last_response.status = 200
    /\ last_response.body = "noitems"
    /\ pc = "returned"
    /\ Len(requests) = 2
    /\ result = all_logs
    /\ Len(result) >= 1

\* a step of get_audit_logs_paginated
FetchStep ==
    \/ MaxPagesBreak
    \/ IssuePageRequest
    \/ HttpRetry
    \/ HttpRetriesExhausted
    \/ PageFailed
    \/ PageReceived

\* the endpoint serves a finite collection (of endpoint.n items, or none)
FiniteCollection == endpoint.kind \in {"slice", "fixed", "down"}

\* the page requests a fetch of that collection may need: the full pages,
\* and one more that comes back short or empty
RequestsNeeded == (endpoint.n \div page_size) + 1

\* what the fetch may still do: page requests not yet issued, and within the
\* current request the HTTP attempts not yet made
Rank ==
    (RequestsNeeded - Len(requests)) * (RetryTotal + 3)
        + (IF pc = "send" THEN RetryTotal + 1 - attempts ELSE 0)

(* C28: against an endpoint serving a finite collection, for every page size *)
(* and with or without max_pages, a fetch that has not returned or raised    *)
(* can always take a step, and every step it takes lowers a rank that is     *)
(* never negative: after finitely many page requests and HTTP attempts it    *)
(* returns or raises.                                                        *)
C28_FetchTerminates ==
    /\ []((FiniteCollection /\ pc \in {"loop", "send"}) =>
             /\ page_size >= 1
             /\ Rank >= 0
             /\ Len(requests) <= RequestsNeeded
             /\ ENABLED FetchStep)
    /\ [][(/\ FiniteCollection
           /\ pc \in {"loop", "send"} /\ pc' \in {"loop", "send"}
           /\ <<pc, requests, attempts>>' # <<pc, requests, attempts>>) =>
              Rank' < Rank]_vars

C28_Witness ==
    /\ endpoint.kind = "slice" /\ endpoint.n = MaxItems
    /\ page_size = 1
    /\ call.max_pages = Some(0)
    /\ pc = "returned"
    /\ Len(requests) = MaxItems + 1
    /\ Len(result) = MaxItems

(* C29: forward_logs calls send_events_batch if and only if dry_run is false *)
(* and the fetch returned at least one entry, and then once, with the whole  *)
(* list the fetch returned and the configured batch size; when the fetch     *)
(* returned no entry, forward_logs returns 0 and the collaborator is not     *)
(* called.                                                                   *)
C29_DeliveryIffEntries ==
    call.caller = "forward_logs" =>
        /\ Len(splunk_calls) <= 1
        /\ pc \in {"fwd_returned", "fwd_raised"} =>
              (splunk_calls # <<>>
                  <=> (~call.dry_run /\ FetchReturned /\ result # <<>>))
        /\ splunk_calls # <<>> =>
              /\ splunk_calls[1].events = result
              /\ result = all_logs
              /\ splunk_calls[1].batch_size = config.batch_size
        /\ (pc = "fwd_returned" /\ result = <<>>) =>
              fwd_result = Some(0) /\ splunk_calls = <<>>

C29_Witness ==
    /\ call.caller = "forward_logs" /\ ~call.dry_run
    /\ pc = "fwd_returned"
    /\ Len(splunk_calls) = 1
    /\ splunk_calls[1].events = result
    /\ Len(result) = 237
    /\ splunk_calls[1].batch_size = DefaultBatchSize
    /\ fwd_result = Some(237)


\* the page request the client issues at an offset: a function of the
\* arguments of the call, the page size and the Crusoe credentials
ExpectedRequest(off) ==
    [method  |-> "GET",
     offset  |-> off,
     params  |-> Params(call.start_time, call.end_time, Some(page_size), Some(off)),
     headers |-> SessionHeaders(config.crusoe),
     timeout |-> 30]

\* the HTTP attempts urllib3 makes for one request before it gives up
AttemptsBeforeGivingUp == 3 + 1

=============================================================================
